---- MODULE Spec2Model ----
(***************************************************************************)
(* Model of src/schedule.py: the PipeDream-flush (1F1B) pipeline schedule, *)
(* its point-to-point exchange operations and the logging (offload)        *)
(* buffer.  All world_size stages run pipedream_flush_schedule             *)
(* concurrently; torch.distributed send/recv are rendezvous operations: a  *)
(* posted send completes together with the matching posted receive of the  *)
(* peer, and a stage continues only when everything it posted completed.   *)
(*                                                                         *)
(* Tensors are identified by the index of the microbatch they belong to    *)
(* (1, 2, ...); None is 0.  A tensor held in logging_buffer is a record    *)
(* with its element count and whether it is a host (cpu) copy.             *)
(*                                                                         *)
(* Line 241 calls recv_backward() without its required argument `shape`,   *)
(* so the call raises TypeError in iteration 0 of every steady loop.  The  *)
(* statements after it (lines 243-257) never run; and because the last     *)
(* stage can then never send a gradient, no receive of recv_backward is    *)
(* ever matched, so lines 266-269 never run either.  The model stops a     *)
(* stage where the program stops it.                                       *)
(***************************************************************************)
EXTENDS Integers, Sequences, FiniteSets, TLC

\* ---- bounds of the model ----
MaxW == 3
MaxM == 3
MaxBuf == 5
MaxCalls == 3

\* ---- program constants ----
memory_budget == 1 * 1000 * 1000 * 1000
BytesPerElement == 4

\* element counts of the tensors exchanged between two stages
Numels == {0, 125000000, 260000000}
LocalWorldSizes == {1, 2}

None == 0
NoReq == <<>>

VARIABLES
    world_size,            \* torch.distributed.get_world_size()
    num_microbatches,      \* global_batch_size // micro_batch_size
    args_logging,          \* _GLOBAL_ARGS.logging
    local_world_size,      \* _GLOBAL_ARGS.local_world_size
    numel,                 \* numel[r]: element count of the output of stage r
    pc,                    \* position of each stage in pipedream_flush_schedule
    error,                 \* the exception that ended the step, "" if none
    input_tensor, output_tensor, output_tensor_grad,
    input_tensors, output_tensors,
    loss,                  \* numerator of the accumulator, over num_microbatches
    ret,                   \* value returned by the step (same representation)
    warm_i, steady_i, cool_i,   \* iterations started of the three loops
    n_fwd,                 \* calls of forward_step
    send_req,              \* the posted, not yet completed send: destination,
                           \* tensor and the neighbour function that named it
    recv_req,              \* the posted, not yet completed receive: source and
                           \* the variable received into
    traffic,               \* <<src, dst>> of every completed transfer
    logging_buffer, logged_size_in_bytes,
    log_idx,               \* position of the list iterator inside logging()
    log_ret,               \* where logging() returns to
    log_calls,             \* calls of logging()
    log_entry,             \* tensors staged when the running/last call began
    log_entry_fits,        \* whether the counter plus the bytes staged at that
                           \* moment stay within memory_budget
    log_copies,            \* host copies made by the running/last call
    pushed, popped,        \* history of the pairs pushed to / popped from the queues
    prime_called,          \* whether line 230 called recv_forward
    op_calls               \* exchange operations called directly on the stage

cfg   == <<world_size, num_microbatches, args_logging, local_world_size, numel>>
sched == <<pc, error, input_tensor, output_tensor, output_tensor_grad,
           input_tensors, output_tensors, loss, ret, warm_i, steady_i, cool_i,
           n_fwd, pushed, popped>>
net   == <<send_req, recv_req, traffic>>
logv  == <<logging_buffer, logged_size_in_bytes, log_idx, log_ret, log_calls,
           log_entry, log_entry_fits, log_copies>>
aux   == <<prime_called, op_calls>>
vars  == <<cfg, sched, net, logv, aux>>
sched_but_pc == <<error, input_tensor, output_tensor, output_tensor_grad,
           input_tensors, output_tensors, loss, ret, warm_i, steady_i, cool_i,
           n_fwd, pushed, popped>>

Ranks == 0 .. (world_size - 1)

\* ---- topology and batch accounting ----
is_pipeline_last_stage_never(r) == FALSE

is_pipeline_last_stage(r) == r = world_size - 1

is_pipeline_first_stage(r) == r = 0

get_pipeline_model_parallel_next_rank(r) == (r + 1) % world_size

get_pipeline_model_parallel_prev_rank(r) == (r - 1) % world_size

num_warmup_microbatches_off_by_one(r) == world_size - r

num_warmup_microbatches(r) == world_size - r - 1

num_microbatches_remaining(r) == num_microbatches - num_warmup_microbatches(r)

should_logging_ignoring_flag(r, dst_rank) ==
    (r \div local_world_size) # (dst_rank \div local_world_size)

should_logging(r, dst_rank) ==
    IF ~args_logging THEN FALSE
    ELSE IF (r \div local_world_size) = (dst_rank \div local_world_size) THEN FALSE
    ELSE TRUE

\* loss_func(output, label) of the k-th microbatch
loss_func(k) == 2 * k + 1

\* ---- logging buffer (lines 97-119) ----
HostCopy(tensor) == [numel |-> tensor.numel, host |-> TRUE]

add_to_logging_buffer(buf, n) == Append(buf, [numel |-> n, host |-> FALSE])

list_clear_keeps_last(buf) == IF buf = <<>> THEN <<>> ELSE <<buf[Len(buf)]>>

\* logging_buffer.clear(), lines 111 and 114
list_clear(buf) == <<>>

\* one pass through the body of the loop of logging() (lines 103-112) for the
\* tensor the list iterator yields: the buffer and the counter after it
LoggingBody_stale_counter(buf, size, tensor) ==
    LET newsize == size + tensor.numel * BytesPerElement
    IN  IF newsize > memory_budget
        THEN [buf |-> <<>>, size |-> newsize]
        ELSE [buf |-> Append(buf, HostCopy(tensor)), size |-> newsize]

LoggingBody(buf, size, tensor) ==
    LET newsize == size + tensor.numel * BytesPerElement
        appended == Append(buf, HostCopy(tensor))
    IN  IF newsize > memory_budget
        THEN [buf |-> list_clear(appended), size |-> 0]
        ELSE [buf |-> appended, size |-> newsize]

\* whether a counter at `size` stays within memory_budget when the bytes of
\* every tensor of buf are added to it
RECURSIVE FitsBudget(_, _)
FitsBudget(buf, size) ==
    IF buf = <<>> THEN TRUE
    ELSE LET newsize == size + Head(buf).numel * BytesPerElement
         IN  newsize <= memory_budget /\ FitsBudget(Tail(buf), newsize)

\* ---- the in-flight queues ----
pop_last(q) == [item |-> q[Len(q)], rest |-> SubSeq(q, 1, Len(q) - 1)]

\* list.pop(0), lines 248-249 and 261-262
pop0(q) == [item |-> Head(q), rest |-> Tail(q)]

\* ---- initial state: the step is about to start on every stage ----
Init ==
    /\ world_size \in 1 .. MaxW
    /\ num_microbatches \in 0 .. MaxM
    /\ args_logging \in BOOLEAN
    /\ local_world_size \in LocalWorldSizes
    /\ numel \in {f \in [Ranks -> Numels \cup {1}] :
                    \A r \in Ranks : IF r = world_size - 1 THEN f[r] = 1
                                     ELSE f[r] \in Numels}
    /\ pc = [r \in Ranks |-> "warmup"]
    /\ error = [r \in Ranks |-> ""]
    /\ input_tensor = [r \in Ranks |-> None]
    /\ output_tensor = [r \in Ranks |-> None]
    /\ output_tensor_grad = [r \in Ranks |-> None]
    /\ input_tensors = [r \in Ranks |-> <<>>]
    /\ output_tensors = [r \in Ranks |-> <<>>]
    /\ loss = [r \in Ranks |-> 0]
    /\ ret = [r \in Ranks |-> 0]
    /\ warm_i = [r \in Ranks |-> 0]
    /\ steady_i = [r \in Ranks |-> 0]
    /\ cool_i = [r \in Ranks |-> 0]
    /\ n_fwd = [r \in Ranks |-> 0]
    /\ send_req = [r \in Ranks |-> NoReq]
    /\ recv_req = [r \in Ranks |-> NoReq]
    /\ traffic = {}
    /\ logging_buffer = [r \in Ranks |-> <<>>]
    /\ logged_size_in_bytes = [r \in Ranks |-> 0]
    /\ log_idx = [r \in Ranks |-> 0]
    /\ log_ret = [r \in Ranks |-> ""]
    /\ log_calls = [r \in Ranks |-> 0]
    /\ log_entry = [r \in Ranks |-> 0]
    /\ log_entry_fits = [r \in Ranks |-> TRUE]
    /\ log_copies = [r \in Ranks |-> 0]
    /\ pushed = [r \in Ranks |-> <<>>]
    /\ popped = [r \in Ranks |-> <<>>]
    /\ prime_called = [r \in Ranks |-> FALSE]
    /\ op_calls = [r \in Ranks |-> 0]

\* a stage runs only when the sends and receives it posted have completed
Idle(r) == send_req[r] = NoReq /\ recv_req[r] = NoReq

\* ---- exchange operations ----
recv_forward_inverted_guard(r) ==
    IF is_pipeline_first_stage(r)
    THEN /\ recv_req' = [recv_req EXCEPT ![r] =
                    <<get_pipeline_model_parallel_prev_rank(r), "input_tensor">>]
         /\ UNCHANGED input_tensor
    ELSE /\ input_tensor' = [input_tensor EXCEPT ![r] = None]
         /\ UNCHANGED recv_req

\* recv_forward, lines 140-147: on the first stage nothing is received and the
\* function returns None
recv_forward(r) ==
    IF ~is_pipeline_first_stage(r)
    THEN /\ recv_req' = [recv_req EXCEPT ![r] =
                    <<get_pipeline_model_parallel_prev_rank(r), "input_tensor">>]
         /\ UNCHANGED input_tensor
    ELSE /\ input_tensor' = [input_tensor EXCEPT ![r] = None]
         /\ UNCHANGED recv_req

\* send_forward, lines 122-128
send_forward(r, tensor) ==
    IF ~is_pipeline_last_stage(r)
    THEN /\ logging_buffer' = [logging_buffer EXCEPT ![r] =
                IF should_logging(r, get_pipeline_model_parallel_next_rank(r))
                THEN add_to_logging_buffer(@, numel[r]) ELSE @]
         /\ send_req' = [send_req EXCEPT ![r] =
                    <<get_pipeline_model_parallel_next_rank(r), tensor, "next">>]
    ELSE UNCHANGED <<logging_buffer, send_req>>

\* send_backward, lines 131-137: the gradient has the shape of the stage's
\* input, the output of the stage before it
send_backward(r, tensor) ==
    IF ~is_pipeline_first_stage(r)
    THEN /\ logging_buffer' = [logging_buffer EXCEPT ![r] =
                IF should_logging(r, get_pipeline_model_parallel_prev_rank(r))
                THEN add_to_logging_buffer(@, numel[get_pipeline_model_parallel_prev_rank(r)])
                ELSE @]
         /\ send_req' = [send_req EXCEPT ![r] =
                    <<get_pipeline_model_parallel_prev_rank(r), tensor, "prev">>]
    ELSE UNCHANGED <<logging_buffer, send_req>>

\* send_forward_recv_backward, lines 164-182: the tensor is staged, then the
\* send and the receive are posted together and both waited for
send_forward_recv_backward(r, tensor) ==
    IF ~is_pipeline_last_stage(r)
    THEN /\ logging_buffer' = [logging_buffer EXCEPT ![r] =
                IF should_logging(r, get_pipeline_model_parallel_next_rank(r))
                THEN add_to_logging_buffer(@, numel[r]) ELSE @]
         /\ send_req' = [send_req EXCEPT ![r] =
                    <<get_pipeline_model_parallel_next_rank(r), tensor, "next">>]
         /\ recv_req' = [recv_req EXCEPT ![r] =
                    <<get_pipeline_model_parallel_next_rank(r), "output_tensor_grad">>]
         /\ UNCHANGED output_tensor_grad
    ELSE /\ output_tensor_grad' = [output_tensor_grad EXCEPT ![r] = None]
         /\ UNCHANGED <<logging_buffer, send_req, recv_req>>

\* send_backward_recv_forward, lines 185-203
send_backward_recv_forward(r, tensor) ==
    IF ~is_pipeline_first_stage(r)
    THEN /\ logging_buffer' = [logging_buffer EXCEPT ![r] =
                IF should_logging(r, get_pipeline_model_parallel_prev_rank(r))
                THEN add_to_logging_buffer(@, numel[get_pipeline_model_parallel_prev_rank(r)])
                ELSE @]
         /\ send_req' = [send_req EXCEPT ![r] =
                    <<get_pipeline_model_parallel_prev_rank(r), tensor, "prev">>]
         /\ recv_req' = [recv_req EXCEPT ![r] =
                    <<get_pipeline_model_parallel_prev_rank(r), "input_tensor">>]
         /\ UNCHANGED input_tensor
    ELSE /\ input_tensor' = [input_tensor EXCEPT ![r] = None]
         /\ UNCHANGED <<logging_buffer, send_req, recv_req>>

\* forward_step, lines 64-81: the k-th call works on microbatch k.  The
\* assertion of line 71 fails when the first stage is handed an activation.
forward_step(r) ==
    LET k == n_fwd[r] + 1
    IN  /\ n_fwd' = [n_fwd EXCEPT ![r] = k]
        /\ IF is_pipeline_first_stage(r) /\ input_tensor[r] # None
           THEN /\ error' = [error EXCEPT ![r] = "AssertionError"]
                /\ UNCHANGED <<output_tensor, loss>>
           ELSE /\ output_tensor' = [output_tensor EXCEPT ![r] = k]
                /\ loss' = [loss EXCEPT ![r] =
                        IF is_pipeline_last_stage(r) THEN @ + loss_func(k) ELSE @]
                /\ UNCHANGED error

\* the transport: a posted send and the matching posted receive complete together
Transfer(s, d) ==
    /\ send_req[s] # NoReq
    /\ send_req[s][1] = d
    /\ recv_req[d] # NoReq
    /\ recv_req[d][1] = s
    /\ send_req' = [send_req EXCEPT ![s] = NoReq]
    /\ recv_req' = [recv_req EXCEPT ![d] = NoReq]
    /\ traffic' = traffic \cup {<<s, d>>}
    /\ IF recv_req[d][2] = "input_tensor"
       THEN /\ input_tensor' = [input_tensor EXCEPT ![d] = send_req[s][2]]
            /\ UNCHANGED output_tensor_grad
       ELSE /\ output_tensor_grad' = [output_tensor_grad EXCEPT ![d] = send_req[s][2]]
            /\ UNCHANGED input_tensor
    /\ UNCHANGED <<cfg, aux, logv, pc, error, output_tensor, input_tensors, output_tensors,
                   loss, ret, warm_i, steady_i, cool_i, n_fwd, pushed, popped>>

\* ---- pipedream_flush_schedule, lines 206-274, stage r ----

\* line 220-221: the warm-up loop starts an iteration with recv_forward
WarmupRecvForward(r) ==
    /\ pc[r] = "warmup"
    /\ Idle(r)
    /\ warm_i[r] < num_warmup_microbatches(r)
    /\ warm_i' = [warm_i EXCEPT ![r] = @ + 1]
    /\ recv_forward(r)
    /\ pc' = [pc EXCEPT ![r] = "warmup_forward"]
    /\ UNCHANGED <<cfg, aux, logv, error, output_tensor, output_tensor_grad, input_tensors,
                   output_tensors, loss, ret, steady_i, cool_i, n_fwd, pushed, popped,
                   send_req, traffic>>

\* lines 222-224: forward_step, then send_forward posts its send
WarmupForwardStep(r) ==
    /\ pc[r] = "warmup_forward"
    /\ Idle(r)
    /\ forward_step(r)
    /\ IF error'[r] # ""
       THEN /\ pc' = [pc EXCEPT ![r] = "fault"]
            /\ UNCHANGED <<logging_buffer, send_req>>
       ELSE /\ pc' = [pc EXCEPT ![r] = "warmup_push"]
            /\ send_forward(r, output_tensor'[r])
    /\ UNCHANGED <<cfg, aux, input_tensor, output_tensor_grad, input_tensors, output_tensors,
                   ret, warm_i, steady_i, cool_i, pushed, popped, recv_req, traffic,
                   logged_size_in_bytes, log_idx, log_ret, log_calls, log_entry,
                   log_entry_fits, log_copies>>

\* lines 226-227: the pair is appended to the two queues
WarmupPush(r) ==
    /\ pc[r] = "warmup_push"
    /\ Idle(r)
    /\ input_tensors' = [input_tensors EXCEPT ![r] = Append(@, input_tensor[r])]
    /\ output_tensors' = [output_tensors EXCEPT ![r] = Append(@, output_tensor[r])]
    /\ pushed' = [pushed EXCEPT ![r] = Append(@, <<input_tensor[r], output_tensor[r]>>)]
    /\ pc' = [pc EXCEPT ![r] = "warmup"]
    /\ UNCHANGED <<cfg, aux, logv, net, error, input_tensor, output_tensor, output_tensor_grad,
                   loss, ret, warm_i, steady_i, cool_i, n_fwd, popped>>

\* lines 229-230: after the warm-up loop, recv_forward when num_microbatches > 0
PrimeRecvForward(r) ==
    /\ pc[r] = "warmup"
    /\ Idle(r)
    /\ warm_i[r] >= num_warmup_microbatches(r)
    /\ IF num_microbatches > 0
       THEN recv_forward(r)
       ELSE UNCHANGED <<recv_req, input_tensor>>
    /\ prime_called' = [prime_called EXCEPT ![r] = (num_microbatches > 0)]
    /\ pc' = [pc EXCEPT ![r] = "steady"]
    /\ UNCHANGED <<cfg, op_calls, logv, error, output_tensor, output_tensor_grad, input_tensors,
                   output_tensors, loss, ret, warm_i, steady_i, cool_i, n_fwd, pushed,
                   popped, send_req, traffic>>

\* lines 233-240, iteration 0 of the steady loop: forward_step, then (first
\* iteration) send_forward posts its send
SteadyForwardStep(r) ==
    /\ pc[r] = "steady"
    /\ Idle(r)
    /\ steady_i[r] < num_microbatches_remaining(r)
    /\ steady_i' = [steady_i EXCEPT ![r] = @ + 1]
    /\ forward_step(r)
    /\ IF error'[r] # ""
       THEN /\ pc' = [pc EXCEPT ![r] = "fault"]
            /\ UNCHANGED <<logging_buffer, send_req>>
       ELSE /\ pc' = [pc EXCEPT ![r] = "steady_recv_backward"]
            /\ send_forward(r, output_tensor'[r])
    /\ UNCHANGED <<cfg, aux, input_tensor, output_tensor_grad, input_tensors, output_tensors,
                   ret, warm_i, cool_i, pushed, popped, recv_req, traffic,
                   logged_size_in_bytes, log_idx, log_ret, log_calls, log_entry,
                   log_entry_fits, log_copies>>

\* line 241: recv_backward() is called without `shape` (required by the
\* signature of line 150), which raises TypeError before the body runs
SteadyRecvBackward(r) ==
    /\ pc[r] = "steady_recv_backward"
    /\ Idle(r)
    /\ error' = [error EXCEPT ![r] = "TypeError"]
    /\ pc' = [pc EXCEPT ![r] = "fault"]
    /\ UNCHANGED <<cfg, aux, logv, net, input_tensor, output_tensor, output_tensor_grad,
                   input_tensors, output_tensors, loss, ret, warm_i, steady_i, cool_i,
                   n_fwd, pushed, popped>>

\* lines 260-262: the cooldown loop starts an iteration by popping the oldest pair
CooldownPop(r) ==
    /\ pc[r] = "steady"
    /\ Idle(r)
    /\ steady_i[r] >= num_microbatches_remaining(r)
    /\ cool_i[r] < num_warmup_microbatches(r)
    /\ cool_i' = [cool_i EXCEPT ![r] = @ + 1]
    /\ input_tensor' = [input_tensor EXCEPT ![r] = pop0(input_tensors[r]).item]
    /\ output_tensor' = [output_tensor EXCEPT ![r] = pop0(output_tensors[r]).item]
    /\ input_tensors' = [input_tensors EXCEPT ![r] = pop0(@).rest]
    /\ output_tensors' = [output_tensors EXCEPT ![r] = pop0(@).rest]
    /\ popped' = [popped EXCEPT ![r] =
            Append(@, <<pop0(input_tensors[r]).item, pop0(output_tensors[r]).item>>)]
    /\ pc' = [pc EXCEPT ![r] = "recv_backward"]
    /\ UNCHANGED <<cfg, aux, logv, net, error, output_tensor_grad, loss, ret, warm_i,
                   steady_i, n_fwd, pushed>>

\* line 264 into recv_backward, lines 153-155: a non-empty logging_buffer is
\* flushed by logging() first.  (A cooldown iteration only runs on a stage
\* that is not the last one.)
RecvBackwardEnter(r) ==
    /\ pc[r] = "recv_backward"
    /\ Idle(r)
    /\ IF ~is_pipeline_last_stage(r) /\ logging_buffer[r] # <<>>
       THEN /\ pc' = [pc EXCEPT ![r] = "logging"]
            /\ log_ret' = [log_ret EXCEPT ![r] = "recv_backward_recv"]
            /\ log_idx' = [log_idx EXCEPT ![r] = 0]
            /\ log_calls' = [log_calls EXCEPT ![r] = @ + 1]
            /\ log_entry' = [log_entry EXCEPT ![r] = Len(logging_buffer[r])]
            /\ log_entry_fits' = [log_entry_fits EXCEPT ![r] =
                    FitsBudget(logging_buffer[r], logged_size_in_bytes[r])]
            /\ log_copies' = [log_copies EXCEPT ![r] = 0]
       ELSE /\ pc' = [pc EXCEPT ![r] = "recv_backward_recv"]
            /\ UNCHANGED <<log_ret, log_idx, log_calls, log_entry, log_entry_fits,
                         log_copies>>
    /\ UNCHANGED <<cfg, aux, net, error, input_tensor, output_tensor, output_tensor_grad,
                   input_tensors, output_tensors, loss, ret, warm_i, steady_i, cool_i,
                   n_fwd, pushed, popped, logging_buffer, logged_size_in_bytes>>

\* lines 157-160: the blocking receive of the gradient from next_rank
RecvBackwardRecv(r) ==
    /\ pc[r] = "recv_backward_recv"
    /\ Idle(r)
    /\ IF ~is_pipeline_last_stage(r)
       THEN recv_req' = [recv_req EXCEPT ![r] =
                <<get_pipeline_model_parallel_next_rank(r), "output_tensor_grad">>]
       ELSE UNCHANGED recv_req
    /\ pc' = [pc EXCEPT ![r] = "backward_step"]
    /\ UNCHANGED <<cfg, aux, logv, sched_but_pc, send_req, traffic>>

\* lines 102-112: one iteration of `for tensor in logging_buffer`; the list
\* iterator yields the element at its position while the list is longer
LoggingIter(r) ==
    /\ pc[r] = "logging"
    /\ log_idx[r] < Len(logging_buffer[r])
    /\ Len(logging_buffer[r]) < MaxBuf
    /\ LET after == LoggingBody(logging_buffer[r], logged_size_in_bytes[r],
                                logging_buffer[r][log_idx[r] + 1])
       IN  /\ logging_buffer' = [logging_buffer EXCEPT ![r] = after.buf]
           /\ logged_size_in_bytes' = [logged_size_in_bytes EXCEPT ![r] = after.size]
    /\ log_idx' = [log_idx EXCEPT ![r] = @ + 1]
    /\ log_copies' = [log_copies EXCEPT ![r] = @ + 1]
    /\ UNCHANGED <<cfg, aux, sched, net, log_ret, log_calls, log_entry, log_entry_fits>>

\* line 114: the iterator is exhausted; the buffer is cleared and logging() returns
LoggingReturn(r) ==
    /\ pc[r] = "logging"
    /\ log_idx[r] >= Len(logging_buffer[r])
    /\ logging_buffer' = [logging_buffer EXCEPT ![r] = list_clear(@)]
    /\ pc' = [pc EXCEPT ![r] = log_ret[r]]
    /\ UNCHANGED <<cfg, aux, net, error, input_tensor, output_tensor, output_tensor_grad,
                   input_tensors, output_tensors, loss, ret, warm_i, steady_i, cool_i,
                   n_fwd, pushed, popped, logged_size_in_bytes, log_idx, log_ret,
                   log_calls, log_entry, log_entry_fits, log_copies>>

\* lines 271-274: after the cooldown loop, a non-empty logging_buffer is
\* flushed and the step returns the accumulated loss
Return(r) ==
    /\ pc[r] \in {"steady", "return"}
    /\ Idle(r)
    /\ steady_i[r] >= num_microbatches_remaining(r)
    /\ cool_i[r] >= num_warmup_microbatches(r)
    /\ IF pc[r] = "steady" /\ logging_buffer[r] # <<>>
       THEN /\ pc' = [pc EXCEPT ![r] = "logging"]
            /\ log_ret' = [log_ret EXCEPT ![r] = "return"]
            /\ log_idx' = [log_idx EXCEPT ![r] = 0]
            /\ log_calls' = [log_calls EXCEPT ![r] = @ + 1]
            /\ log_entry' = [log_entry EXCEPT ![r] = Len(logging_buffer[r])]
            /\ log_entry_fits' = [log_entry_fits EXCEPT ![r] =
                    FitsBudget(logging_buffer[r], logged_size_in_bytes[r])]
            /\ log_copies' = [log_copies EXCEPT ![r] = 0]
            /\ UNCHANGED ret
       ELSE /\ pc' = [pc EXCEPT ![r] = "done"]
            /\ ret' = [ret EXCEPT ![r] = loss[r]]
            /\ UNCHANGED <<log_ret, log_idx, log_calls, log_entry, log_entry_fits,
                         log_copies>>
    /\ UNCHANGED <<cfg, aux, net, error, input_tensor, output_tensor, output_tensor_grad,
                   input_tensors, output_tensors, loss, warm_i, steady_i, cool_i,
                   n_fwd, pushed, popped, logging_buffer, logged_size_in_bytes>>

Next ==
    \/ \E r \in Ranks : WarmupRecvForward(r)
    \/ \E r \in Ranks : WarmupForwardStep(r)
    \/ \E r \in Ranks : WarmupPush(r)
    \/ \E r \in Ranks : PrimeRecvForward(r)
    \/ \E r \in Ranks : SteadyForwardStep(r)
    \/ \E r \in Ranks : SteadyRecvBackward(r)
    \/ \E r \in Ranks : CooldownPop(r)
    \/ \E r \in Ranks : RecvBackwardEnter(r)
    \/ \E r \in Ranks : RecvBackwardRecv(r)
    \/ \E r \in Ranks : LoggingIter(r)
    \/ \E r \in Ranks : LoggingReturn(r)
    \/ \E r \in Ranks : Return(r)
    \/ \E s \in Ranks : \E d \in Ranks : Transfer(s, d)

Spec == Init /\ [][Next]_vars

\* ======================= the exchange operations called directly =======================

\* no step is running: every stage is ready for a call
InitOps ==
    /\ world_size \in 1 .. MaxW
    /\ num_microbatches = 0
    /\ args_logging \in BOOLEAN
    /\ local_world_size \in LocalWorldSizes
    /\ numel \in {f \in [Ranks -> Numels \cup {1}] :
                    \A r \in Ranks : IF r = world_size - 1 THEN f[r] = 1
                                     ELSE f[r] \in Numels}
    /\ pc = [r \in Ranks |-> "idle"]
    /\ error = [r \in Ranks |-> ""]
    /\ input_tensor = [r \in Ranks |-> None]
    /\ output_tensor = [r \in Ranks |-> None]
    /\ output_tensor_grad = [r \in Ranks |-> None]
    /\ input_tensors = [r \in Ranks |-> <<>>]
    /\ output_tensors = [r \in Ranks |-> <<>>]
    /\ loss = [r \in Ranks |-> 0]
    /\ ret = [r \in Ranks |-> 0]
    /\ warm_i = [r \in Ranks |-> 0]
    /\ steady_i = [r \in Ranks |-> 0]
    /\ cool_i = [r \in Ranks |-> 0]
    /\ n_fwd = [r \in Ranks |-> 0]
    /\ send_req = [r \in Ranks |-> NoReq]
    /\ recv_req = [r \in Ranks |-> NoReq]
    /\ traffic = {}
    /\ logging_buffer = [r \in Ranks |-> <<>>]
    /\ logged_size_in_bytes = [r \in Ranks |-> 0]
    /\ log_idx = [r \in Ranks |-> 0]
    /\ log_ret = [r \in Ranks |-> ""]
    /\ log_calls = [r \in Ranks |-> 0]
    /\ log_entry = [r \in Ranks |-> 0]
    /\ log_entry_fits = [r \in Ranks |-> TRUE]
    /\ log_copies = [r \in Ranks |-> 0]
    /\ pushed = [r \in Ranks |-> <<>>]
    /\ popped = [r \in Ranks |-> <<>>]
    /\ prime_called = [r \in Ranks |-> FALSE]
    /\ op_calls = [r \in Ranks |-> 0]

\* calls made so far on stages 0 .. r
RECURSIVE CallsUpTo(_)
CallsUpTo(r) == IF r < 0 THEN 0 ELSE op_calls[r] + CallsUpTo(r - 1)

\* the stage can take its next call; the tensor it passes is numbered by the call
CanCall(r) == pc[r] = "idle" /\ Idle(r) /\ CallsUpTo(world_size - 1) < MaxCalls

Called(r) ==
    /\ op_calls' = [op_calls EXCEPT ![r] = @ + 1]
    /\ UNCHANGED <<cfg, prime_called, pc, error, output_tensor, input_tensors,
                   output_tensors, loss, ret, warm_i, steady_i, cool_i, n_fwd,
                   pushed, popped, traffic, logged_size_in_bytes, log_idx, log_ret,
                   log_calls, log_entry, log_entry_fits, log_copies>>

OpSendForward(r) ==
    /\ CanCall(r)
    /\ send_forward(r, op_calls[r] + 1)
    /\ Called(r)
    /\ UNCHANGED <<recv_req, input_tensor, output_tensor_grad>>

OpSendBackward(r) ==
    /\ CanCall(r)
    /\ send_backward(r, op_calls[r] + 1)
    /\ Called(r)
    /\ UNCHANGED <<recv_req, input_tensor, output_tensor_grad>>

OpRecvForward(r) ==
    /\ CanCall(r)
    /\ recv_forward(r)
    /\ Called(r)
    /\ UNCHANGED <<send_req, logging_buffer, output_tensor_grad>>

\* recv_backward runs through RecvBackwardEnter and RecvBackwardRecv
OpRecvBackward(r) ==
    /\ CanCall(r)
    /\ pc' = [pc EXCEPT ![r] = "recv_backward"]
    /\ op_calls' = [op_calls EXCEPT ![r] = @ + 1]
    /\ UNCHANGED <<cfg, prime_called, sched_but_pc, net, logv>>

\* line 161: recv_backward returns once its receive has completed
OpRecvBackwardReturn(r) ==
    /\ pc[r] = "backward_step"
    /\ Idle(r)
    /\ pc' = [pc EXCEPT ![r] = "idle"]
    /\ UNCHANGED <<cfg, aux, sched_but_pc, net, logv>>

OpSendForwardRecvBackward(r) ==
    /\ CanCall(r)
    /\ send_forward_recv_backward(r, op_calls[r] + 1)
    /\ Called(r)
    /\ UNCHANGED input_tensor

OpSendBackwardRecvForward(r) ==
    /\ CanCall(r)
    /\ send_backward_recv_forward(r, op_calls[r] + 1)
    /\ Called(r)
    /\ UNCHANGED output_tensor_grad

NextOps ==
    \/ \E r \in Ranks : OpSendForward(r)
    \/ \E r \in Ranks : OpSendBackward(r)
    \/ \E r \in Ranks : OpRecvForward(r)
    \/ \E r \in Ranks : OpRecvBackward(r)
    \/ \E r \in Ranks : RecvBackwardEnter(r)
    \/ \E r \in Ranks : RecvBackwardRecv(r)
    \/ \E r \in Ranks : OpRecvBackwardReturn(r)
    \/ \E r \in Ranks : OpSendForwardRecvBackward(r)
    \/ \E r \in Ranks : OpSendBackwardRecvForward(r)
    \/ \E r \in Ranks : LoggingIter(r)
    \/ \E r \in Ranks : LoggingReturn(r)
    \/ \E s \in Ranks : \E d \in Ranks : Transfer(s, d)

SpecOps == InitOps /\ [][NextOps]_vars

\* ======================= properties =======================

Ended(r) == pc[r] \in {"done", "fault"}

\* some posted send has its matching posted receive
CanTransfer ==
    \E s \in Ranks : \E d \in Ranks :
        /\ send_req[s] # NoReq /\ send_req[s][1] = d
        /\ recv_req[d] # NoReq /\ recv_req[d][1] = s

\* a stage that has not ended and waits for nothing can take its next step
Running(r) == ~Ended(r) /\ Idle(r)

RECURSIVE SumLoss(_)
SumLoss(k) == IF k = 0 THEN 0 ELSE loss_func(k) + SumLoss(k - 1)

RECURSIVE HostBytes(_)
HostBytes(buf) ==
    IF buf = <<>> THEN 0
    ELSE (IF Head(buf).host THEN Head(buf).numel * BytesPerElement ELSE 0)
         + HostBytes(Tail(buf))

HostCount(buf) == Cardinality({i \in 1 .. Len(buf) : buf[i].host})

CrossNode(r, d) == (r \div local_world_size) # (d \div local_world_size)

\* C1: with num_microbatches >= world_size - 1, no reachable state is a
\* deadlock: unless every stage has reached the end of the step, some stage
\* can run or some posted send meets its posted receive.
C1_NoDeadlock ==
    (num_microbatches >= world_size - 1) =>
        \/ \A r \in Ranks : pc[r] = "done"
        \/ CanTransfer
        \/ \E r \in Ranks : Running(r)

\* C2: the two queues always have the same length, the pairs popped so far
\* are the first pairs pushed, in push order, and what is pending is the rest.
C2_QueuesPairedFifo ==
    \A r \in Ranks :
        /\ Len(input_tensors[r]) = Len(output_tensors[r])
        /\ Len(popped[r]) + Len(input_tensors[r]) = Len(pushed[r])
        /\ \A k \in 1 .. Len(popped[r]) : popped[r][k] = pushed[r][k]
        /\ \A k \in 1 .. Len(input_tensors[r]) :
              <<input_tensors[r][k], output_tensors[r][k]>>
                  = pushed[r][Len(popped[r]) + k]

\* a pair was popped while a younger pair stayed pending
C2_Witness ==
    \E r \in Ranks : Len(popped[r]) >= 1 /\ Len(output_tensors[r]) >= 1

\* C3: a step of stage r with num_microbatches >= W-r-1 ends having run
\* exactly W-r-1 warm-up forwards, M-(W-r-1) steady iterations and W-r-1
\* cooldown backwards.
C3_PhaseCounts ==
    \A r \in Ranks :
        (num_microbatches >= num_warmup_microbatches(r) /\ Ended(r)) =>
            /\ pc[r] = "done"
            /\ warm_i[r] = num_warmup_microbatches(r)
            /\ steady_i[r] = num_microbatches_remaining(r)
            /\ cool_i[r] = num_warmup_microbatches(r)

\* C4: the first steady iteration performs send_forward and the simple
\* receive-backward and goes on without a fault.
C4_FirstSteadyIterationNoFault ==
    \A r \in Ranks : steady_i[r] >= 1 => (pc[r] # "fault" /\ error[r] = "")

\* C5: with world_size = 1 nothing is ever posted or transferred, and the
\* step ends as num_microbatches forward/backward pairs.
C5_SingleStage ==
    (world_size = 1) =>
        /\ traffic = {}
        /\ send_req[0] = NoReq /\ recv_req[0] = NoReq
        /\ Ended(0) => /\ pc[0] = "done"
                       /\ n_fwd[0] = num_microbatches
                       /\ Len(popped[0]) = num_microbatches

\* C6: a step ends by returning, on the last stage, the sum over the
\* num_microbatches microbatches of loss_func/num_microbatches, and 0 on
\* every other stage, whose accumulator is never written.
C6_RunningLoss ==
    \A r \in Ranks :
        /\ ~is_pipeline_last_stage(r) => loss[r] = 0
        /\ Ended(r) =>
              /\ pc[r] = "done"
              /\ ret[r] = IF is_pipeline_last_stage(r)
                          THEN SumLoss(num_microbatches) ELSE 0

\* C7: with logging disabled should_logging is false for every destination,
\* logging_buffer stays empty, logged_size_in_bytes keeps its value and
\* logging() is never invoked.
C7_LoggingDisabled ==
    (~args_logging) =>
        \A r \in Ranks :
            /\ \A d \in Ranks : ~should_logging(r, d)
            /\ logging_buffer[r] = <<>>
            /\ logged_size_in_bytes[r] = 0
            /\ log_calls[r] = 0
            /\ pc[r] # "logging"

\* logging disabled, and a stage sent to a rank of another node and then
\* went through recv_backward
C7_Witness ==
    /\ ~args_logging
    /\ \E r \in Ranks :
          /\ pc[r] = "backward_step"
          /\ CrossNode(r, get_pipeline_model_parallel_next_rank(r))

\* C8: logged_size_in_bytes always equals the bytes of the host copies held
\* in logging_buffer, also between two iterations of the loop of logging();
\* and the iteration that takes the counter over memory_budget leaves the
\* counter 0 and the buffer empty.
C8_CounterMatchesBuffer ==
    /\ [](\A r \in Ranks : logged_size_in_bytes[r] = HostBytes(logging_buffer[r]))
    /\ [][\A r \in Ranks :
            ( /\ pc[r] = "logging"
              /\ log_copies'[r] = log_copies[r] + 1
              /\ logged_size_in_bytes[r]
                   + logging_buffer[r][log_idx[r] + 1].numel * BytesPerElement
                     > memory_budget )
            => (logging_buffer'[r] = <<>> /\ logged_size_in_bytes'[r] = 0)]_vars

\* the loop of logging() has just cleared the buffer on overflow, after
\* iterations that kept their host copies
C8_Witness ==
    \E r \in Ranks :
        pc[r] = "logging" /\ log_copies[r] >= 2 /\ logging_buffer[r] = <<>>

\* C9: a call of logging() makes exactly one host copy per tensor staged
\* when the call began.
C9_OneCopyPerStagedTensor ==
    \A r \in Ranks :
        (log_calls[r] >= 1 /\ pc[r] # "logging") => log_copies[r] = log_entry[r]

\* C10: when a call of logging() has ended and the counter with the bytes of
\* the tensors it had to copy does not exceed memory_budget, the host copies
\* it made are in the buffer and the counter is their total.
C10_RetainedUnderBudget ==
    \A r \in Ranks :
        (log_calls[r] >= 1 /\ pc[r] # "logging"
           /\ log_entry_fits[r]) =>
            /\ log_copies[r] >= 1
            /\ HostCount(logging_buffer[r]) = log_copies[r]
            /\ logged_size_in_bytes[r] = HostBytes(logging_buffer[r])

\* no stage can run and no posted send meets its posted receive
Quiescent == ~CanTransfer /\ \A r \in Ranks : ~Running(r)

\* C11: a step of stage r with num_microbatches >= W-r-1 ends having run
\* num_microbatches forward_steps and as many backward_steps, the k-th
\* backward_step on the pair pushed by the k-th forward_step, and with both
\* queues empty.
C11_EveryForwardHasItsBackward ==
    \A r \in Ranks :
        (num_microbatches >= num_warmup_microbatches(r) /\ Ended(r)) =>
            /\ pc[r] = "done"
            /\ n_fwd[r] = num_microbatches
            /\ Len(pushed[r]) = num_microbatches
            /\ popped[r] = pushed[r]
            /\ input_tensors[r] = <<>> /\ output_tensors[r] = <<>>

\* C12: with num_microbatches >= world_size - 1, the gradient a non-last
\* stage holds for a backward_step belongs to the microbatch of the pair it
\* popped for that backward_step, and a stage that popped a pair gets that
\* gradient.
C12_GradientMatchesPair ==
    (num_microbatches >= world_size - 1) =>
        \A r \in Ranks :
            ~is_pipeline_last_stage(r) =>
                /\ output_tensor_grad[r] # None =>
                      /\ popped[r] # <<>>
                      /\ output_tensor_grad[r] = popped[r][Len(popped[r])][2]
                /\ (Quiescent /\ popped[r] # <<>>) =>
                      output_tensor_grad[r] = popped[r][Len(popped[r])][2]

\* C13: after the warm-up loop the priming recv_forward is called if and only
\* if a steady microbatch remains.
C13_PrimeIffRemaining ==
    \A r \in Ranks :
        pc[r] \notin {"warmup", "warmup_forward", "warmup_push"} =>
            (prime_called[r] <=> num_microbatches_remaining(r) > 0)

\* C15: logging() returns with logging_buffer empty, and a stage whose step
\* has returned has logging_buffer empty.
C15_FlushLeavesBufferEmpty ==
    /\ [](\A r \in Ranks : pc[r] = "done" => logging_buffer[r] = <<>>)
    /\ [][\A r \in Ranks :
            (pc[r] = "logging" /\ pc'[r] # "logging") => logging_buffer'[r] = <<>>]_vars

\* logging() has returned from a call that began with two staged tensors
C15_Witness ==
    \E r \in Ranks :
        pc[r] = "recv_backward_recv" /\ log_calls[r] >= 1 /\ log_entry[r] >= 2

\* C16: logged_size_in_bytes is at most memory_budget between any two
\* iterations of the loop of logging(), at its return and outside it.
C16_CounterWithinBudget ==
    \A r \in Ranks : logged_size_in_bytes[r] <= memory_budget

\* a stage is past a call of logging(), in which an increment took the counter
\* over memory_budget
C16_Witness ==
    \E r \in Ranks :
        pc[r] = "backward_step" /\ log_calls[r] >= 1 /\ log_copies[r] >= 1

\* the stage is about to call forward_step (lines 222 and 236)
AboutToForward(r) ==
    /\ Idle(r)
    /\ \/ pc[r] = "warmup_forward"
       \/ pc[r] = "steady" /\ steady_i[r] < num_microbatches_remaining(r)

\* C18: the assertion of forward_step never fails: the first stage always
\* passes None to forward_step, every other stage a received activation.
C18_ForwardStepInput ==
    \A r \in Ranks :
        /\ error[r] # "AssertionError"
        /\ AboutToForward(r) => (is_pipeline_first_stage(r) <=> input_tensor[r] = None)

\* the first stage ran forward_step in warm-up and in a steady iteration, and
\* another stage ran it on a received activation
C18_Witness ==
    /\ world_size >= 2
    /\ steady_i[0] >= 1 /\ warm_i[0] >= 1 /\ error[0] # "AssertionError"
    /\ \E r \in Ranks : r > 0 /\ n_fwd[r] >= 1

\* C19: a stage never holds more than W - r pairs in its queues, and holds
\* exactly W - r - 1 when it starts a steady iteration.
C19_InFlightBound ==
    \A r \in Ranks :
        /\ Len(input_tensors[r]) <= world_size - r
        /\ Len(output_tensors[r]) <= world_size - r
        /\ (pc[r] = "steady" /\ steady_i[r] < num_microbatches_remaining(r)) =>
              Len(input_tensors[r]) = world_size - r - 1

\* a stage with pairs in flight has started a steady iteration
C19_Witness ==
    \E r \in Ranks :
        pc[r] = "steady_recv_backward" /\ Len(output_tensors[r]) >= 1

\* C20: a call of logging() on a non-empty buffer ends: while the loop runs,
\* the iterator still has a tensor ahead whose copy raises the counter (the
\* loop ends only when the counter passes memory_budget).
C20_LoggingTerminates ==
    \A r \in Ranks :
        (pc[r] = "logging" /\ log_idx[r] < Len(logging_buffer[r])) =>
            \E i \in (log_idx[r] + 1) .. Len(logging_buffer[r]) :
                logging_buffer[r][i].numel > 0

\* C14: a receive of a gradient from next_rank, by recv_backward or by
\* send_forward_recv_backward, is never posted while tensors are staged in
\* logging_buffer.
C14_FlushBeforeBackwardReceive ==
    \A r \in Ranks :
        (recv_req[r] # NoReq /\ recv_req[r][2] = "output_tensor_grad") =>
            logging_buffer[r] = <<>>

\* C17 as stated: for world_size >= 2 the first stage never posts a send to or
\* a receive from the rank prev_rank gives it, the last stage none to or from
\* the rank next_rank gives it, and every transfer is between r and r+1.
C17_NoWrapAroundNeighbour ==
    (world_size >= 2) =>
        LET first == 0
            last == world_size - 1
        IN  /\ send_req[first] # NoReq =>
                  send_req[first][1] # get_pipeline_model_parallel_prev_rank(first)
            /\ recv_req[first] # NoReq =>
                  recv_req[first][1] # get_pipeline_model_parallel_prev_rank(first)
            /\ send_req[last] # NoReq =>
                  send_req[last][1] # get_pipeline_model_parallel_next_rank(last)
            /\ recv_req[last] # NoReq =>
                  recv_req[last][1] # get_pipeline_model_parallel_next_rank(last)
            /\ \A t \in traffic : t[2] = t[1] + 1 \/ t[1] = t[2] + 1

\* C17, amended: for world_size >= 2 a send or receive that names next_rank
\* is posted only by a stage r < W-1 and goes to r+1, one that names prev_rank
\* only by a stage r > 0 and goes to r-1; every transfer is between r and r+1;
\* for world_size >= 3 the first and the last stage never exchange anything.
C17_NeighbourGuards ==
    (world_size >= 2) =>
        /\ \A r \in Ranks :
              send_req[r] # NoReq =>
                  IF send_req[r][3] = "next"
                  THEN r < world_size - 1 /\ send_req[r][1] = r + 1
                  ELSE r > 0 /\ send_req[r][1] = r - 1
        /\ \A r \in Ranks :
              recv_req[r] # NoReq =>
                  IF recv_req[r][2] = "output_tensor_grad"
                  THEN r < world_size - 1 /\ recv_req[r][1] = r + 1
                  ELSE r > 0 /\ recv_req[r][1] = r - 1
        /\ \A t \in traffic : t[2] = t[1] + 1 \/ t[1] = t[2] + 1
        /\ (world_size >= 3) =>
              /\ <<0, world_size - 1>> \notin traffic
              /\ <<world_size - 1, 0>> \notin traffic

\* the first and the last stage have each returned from a call although
\* nothing has been transferred: the call was one toward the neighbour the
\* stage does not have and posted nothing; a stage between them waits on a
\* send it posted
C17_Witness ==
    /\ world_size >= 3
    /\ traffic = {}
    /\ op_calls[0] = 1 /\ pc[0] = "idle" /\ Idle(0)
    /\ op_calls[world_size - 1] = 1 /\ pc[world_size - 1] = "idle"
    /\ Idle(world_size - 1)
    /\ \E r \in Ranks : send_req[r] # NoReq

====
